---- MODULE Spec2Model ----
(***************************************************************************)
(* Model of core/clicker/blum.py: the BlumClicker agent.                   *)
(*                                                                         *)
(* The four detectors are operators over a snapshot and a rectangle; each  *)
(* returns what the Python method returns together with the pointer moves  *)
(* it made, each followed by its mouse.click, and whether it raised by     *)
(* itself.  run() is a state machine whose program counter stops at every  *)
(* call of run()'s body and at the await of handle_input(); a call that    *)
(* fails for an outside reason is an error step of its own, which for a    *)
(* detector may come between its mouse.move and its mouse.click, and so is *)
(* an interrupt raised in the frame of run() between two calls.            *)
(*                                                                         *)
(* A snapshot is a record [width, height, bg, px, blocks]: blocks is a     *)
(* sequence of filled rectangles [x, y, w, h, c] of colour c, px maps      *)
(* single pixels outside the blocks to their colour, and every other pixel *)
(* has the background colour bg.  In every snapshot of the model the       *)
(* pixels of the near-white mask are exactly the pixels of the blocks      *)
(* whose colour is in the mask's range, these blocks do not touch each     *)
(* other, and blocks lists them in raster order of their top-left corner   *)
(* (SnapshotShape).                                                        *)
(***************************************************************************)
EXTENDS Integers, Sequences, FiniteSets, TLC

VARIABLES
    pc,          \* position of run(): start, poll, sleep, rect, capture, green, freeze, dog,
                 \* button, done (run() returned), propagated (run() left by an exception)
    paused,      \* self.paused
    window,      \* the value get_window() returned: "unset", "absent" or "window"
    rect,        \* rect of the current iteration
    screenshot,  \* screenshot of the current iteration
    is_green,    \* is_green of the current iteration
    polls,       \* number of handle_input() calls made, counted up to MaxPolls
    lastPoll,    \* what the last handle_input() that returned gave: "none", "paused" or "running"
    keys,        \* the keys the last poll read, <<"s", "p">>: "down", "up", or "unread"
                 \* when is_pressed was not called for the key or did not return
    delay,       \* milliseconds of asyncio.sleep in the last handle_input() call that
                 \* reached line 31, 40 or 42 (0: it did not sleep)
    keyFlips,    \* number of writes of handle_input() that changed self.paused, up to MaxPolls
    holdAge,     \* time slept since the start of the first poll of the current continuous
                 \* hold of "p", up to DebounceMs (-1: not held)
    holdLen,     \* number of consecutive polls, up to the last one, made with "p" held
    holdPolls,   \* those of them that started within the debounce window of the hold
    holdFlips,   \* changes of self.paused written by the polls counted in holdPolls
    calls,       \* the calls run() made in the current iteration, in order
    clicks,      \* the pointer moves of the current iteration, in order: the detector, the
                 \* point passed to mouse.move, and whether mouse.click followed
    collect_dogs,\* the COLLECT_DOGS value read in the current iteration ("unread" before)
    tick,        \* "idle", "active", "complete" or "failed": the current iteration's progress
    rectLookups, \* number of get_rect() calls made, up to MaxPolls
    captures,    \* number of capture_screenshot() calls made, up to MaxPolls
    error,       \* "none", or where the exception was raised: the call start, poll, rect,
                 \* capture, green, freeze, config (get_config_value), dog or button, or
                 \* the position of run() when it was raised in run()'s own frame
    raisedIn,    \* "none", "call" (raised inside the call) or "frame" (raised in the
                 \* frame of run(), before the call of that position was made)
    kind,        \* "none", or the class of what was raised: "Exception" or "BaseException"
    logged,      \* the logger.error call of the except clause: "none", "done" or "raised"
    catches,     \* number of times the except clause of run() was entered
    status       \* "running", "returned", or "raised" when the exception left run()

vars == <<pc, paused, window, rect, screenshot, is_green, polls, lastPoll, keys, delay,
          keyFlips, holdAge, holdLen, holdPolls, holdFlips, calls, clicks,
          collect_dogs, tick, rectLookups, captures, error, raisedIn, kind, logged, catches, status>>

(***************************************************************************)
(* Bounds of the model: the cap of the counters and the two image sizes.   *)
(***************************************************************************)
MaxPolls == 2
ImgW == 21
ImgH == 41
WideW == 80
WideH == 60

(***************************************************************************)
(* Program constants.                                                      *)
(***************************************************************************)
GridStep == 20
DebounceMs == 200
RunLength == 10
ClickDx == 10
ClickDy == 5
AreaLow == 500
AreaHigh == 3000

\* another colour excluded in place of the background shade
avoid_color_black == <<0, 0, 0>>

avoid_color == <<196, 247, 94>>
button_color == <<255, 255, 255>>
text_color == <<0, 0, 0>>

\* lower_white and upper_white, as (H, S, V)
lower_white == <<0, 0, 200>>
upper_white == <<180, 55, 255>>

Min(a, b) == IF a <= b THEN a ELSE b
Max(a, b) == IF a >= b THEN a ELSE b

\* a counter of the model stops at MaxPolls
Inc(n) == IF n < MaxPolls THEN n + 1 ELSE n

(***************************************************************************)
(* Pixels.                                                                 *)
(***************************************************************************)
InImage(screen, x, y) == x >= 0 /\ x < screen.width /\ y >= 0 /\ y < screen.height

InBlock(b, x, y) == x >= b.x /\ x < b.x + b.w /\ y >= b.y /\ y < b.y + b.h

\* screen.getpixel((x, y)) for a coordinate inside the image
getpixel(screen, x, y) ==
    IF \E i \in DOMAIN screen.blocks : InBlock(screen.blocks[i], x, y)
    THEN LET i == CHOOSE j \in DOMAIN screen.blocks : InBlock(screen.blocks[j], x, y)
         IN screen.blocks[i].c
    ELSE IF <<x, y>> \in DOMAIN screen.px THEN screen.px[<<x, y>>] ELSE screen.bg

greenish_range(c) ==
    (c[3] < 125) /\ (102 <= c[1] /\ c[1] < 220) /\ (200 <= c[2] /\ c[2] < 255)

blueish_range(c) ==
    (215 < c[3] /\ c[3] < 255) /\ (100 <= c[1] /\ c[1] < 166) /\ (220 <= c[2] /\ c[2] < 254)

\* len(range(0, n, 20))
RangeLen(n) == (n + GridStep - 1) \div GridStep

\* number of pairs product(range(0, width, 20), range(0, height, 20)) yields
product_len(width, height) == RangeLen(width) * RangeLen(height)

\* the scan order with y in the outer position and x in the inner one
product_xy_rowmajor(width, height, i) ==
    <<GridStep * (i % RangeLen(width)), GridStep * (i \div RangeLen(width))>>

\* the scan on a grid of half the step
product_xy_halfstep(width, height, i) ==
    <<(GridStep \div 2) * (i \div RangeLen(height)), (GridStep \div 2) * (i % RangeLen(height))>>

\* the i-th pair (0-based) of product(range(0, width, 20), range(0, height, 20)):
\* itertools.product varies its last argument fastest
product_xy(width, height, i) ==
    <<GridStep * (i \div RangeLen(height)), GridStep * (i % RangeLen(height))>>

NoResult == [found |-> FALSE, moves |-> <<>>, raised |-> FALSE]
Raised == [found |-> FALSE, moves |-> <<>>, raised |-> TRUE]
Clicked(sx, sy) == [found |-> TRUE, moves |-> << <<sx, sy>> >>, raised |-> FALSE]

\* the absolute point of the green and freeze detectors, with the axes swapped
screen_point_swapped(r, x, y) == <<r[1] + y, r[2] + x>>

\* screen_x = rect[0] + x; screen_y = rect[1] + y
screen_point(r, x, y) == <<r[1] + x, r[2] + y>>

(***************************************************************************)
(* collect_green: the for loop from its i-th pair on.                      *)
(***************************************************************************)
RECURSIVE green_scan(_, _, _)
green_scan(screen, r, i) ==
    IF i >= product_len(screen.width, screen.height) THEN NoResult
    ELSE LET xy == product_xy(screen.width, screen.height, i)
             c == getpixel(screen, xy[1], xy[2])
         IN IF c = avoid_color THEN green_scan(screen, r, i + 1)
            ELSE IF greenish_range(c)
                 THEN LET p == screen_point(r, xy[1], xy[2]) IN Clicked(p[1], p[2])
                 ELSE green_scan(screen, r, i + 1)

collect_green(screen, r) == green_scan(screen, r, 0)

(***************************************************************************)
(* collect_freeze: the for loop from its i-th pair on.                     *)
(***************************************************************************)
RECURSIVE freeze_scan(_, _, _)
freeze_scan(screen, r, i) ==
    IF i >= product_len(screen.width, screen.height) THEN NoResult
    ELSE LET xy == product_xy(screen.width, screen.height, i)
             c == getpixel(screen, xy[1], xy[2])
         IN IF blueish_range(c)
            THEN LET p == screen_point(r, xy[1], xy[2]) IN Clicked(p[1], p[2])
            ELSE freeze_scan(screen, r, i + 1)

collect_freeze(screen, r) == freeze_scan(screen, r, 0)

(***************************************************************************)
(* collect_dog.                                                            *)
(***************************************************************************)
\* V and S of cv2.COLOR_BGR2HSV on 8-bit pixels: V = max(r, g, b) and
\* S = 255 * (V - min(r, g, b)) / V rounded to the nearest integer (0 when V = 0)
hsv_v(c) == Max(c[1], Max(c[2], c[3]))
\* S of the 8-bit conversion: (diff * sdiv + 2^11) >> 12 with the table entry
\* sdiv = round(255 * 2^12 / V)
hsv_s(c) ==
    LET v == hsv_v(c)
        m == Min(c[1], Min(c[2], c[3]))
        sdiv == IF v = 0 THEN 0 ELSE (2 * 255 * 4096 + v) \div (2 * v)
    IN ((v - m) * sdiv + 2048) \div 4096

\* cv2.inRange(hsv, lower_white, upper_white) at a pixel of colour c: both bounds
\* are included, and every 8-bit hue lies between 0 and 180
inRange(c) ==
    /\ lower_white[2] <= hsv_s(c) /\ hsv_s(c) <= upper_white[2]
    /\ lower_white[3] <= hsv_v(c) /\ hsv_v(c) <= upper_white[3]

Reverse(s) == [i \in 1 .. Len(s) |-> s[Len(s) + 1 - i]]

\* cv2.findContours(mask, RETR_EXTERNAL, CHAIN_APPROX_SIMPLE) on a mask made of
\* filled rectangles that do not touch: one contour for each, the four corner
\* pixels of the rectangle, listed from the last one a raster scan meets to the
\* first.  A contour is given by the block it surrounds.
findContours(screen) == Reverse(SelectSeq(screen.blocks, LAMBDA b : inRange(b.c)))

\* cv2.contourArea of the corner polygon (x, y) .. (x + w - 1, y + h - 1)
contourArea(b) == (b.w - 1) * (b.h - 1)

\* cv2.boundingRect of that polygon
boundingRect(b) == <<b.x, b.y, b.w, b.h>>

\* the area test with the bounds included
area_ok_inclusive(area) == AreaLow <= area /\ area <= AreaHigh

\* 500 < area < 3000
area_ok(area) == AreaLow < area /\ area < AreaHigh

\* the loop over the contours from the i-th one on
RECURSIVE dog_scan(_, _, _)
dog_scan(contours, r, i) ==
    IF i > Len(contours) THEN NoResult
    ELSE IF area_ok(contourArea(contours[i]))
         THEN LET box == boundingRect(contours[i])
              IN Clicked(r[1] + box[1] + box[3] \div 2, r[2] + box[2] + box[4] \div 2)
         ELSE dog_scan(contours, r, i + 1)

collect_dog(screen, r) == dog_scan(findContours(screen), r, 1)

(***************************************************************************)
(* collect_button.                                                         *)
(***************************************************************************)
\* int(height * 0.75)
search_area_start_y(height) == (3 * height) \div 4

\* the run check one pixel short: offsets 1 .. 8
RECURSIVE white_run_short(_, _, _, _)
white_run_short(screen, x, y, offset) ==
    IF offset >= RunLength - 1 THEN "yes"
    ELSE IF ~InImage(screen, x, y + offset) THEN "raise"
    ELSE IF getpixel(screen, x, y + offset) = button_color
         THEN white_run_short(screen, x, y, offset + 1)
         ELSE "no"

\* all(screen.getpixel((x, y + offset)) == button_color for offset in range(1, 10)),
\* from offset on: "yes", "no", or "raise" when a read leaves the image
\* (Image.getpixel raises IndexError).  all() stops at the first pixel that differs.
RECURSIVE white_run(_, _, _, _)
white_run(screen, x, y, offset) ==
    IF offset >= RunLength THEN "yes"
    ELSE IF ~InImage(screen, x, y + offset) THEN "raise"
    ELSE IF getpixel(screen, x, y + offset) = button_color
         THEN white_run(screen, x, y, offset + 1)
         ELSE "no"

\* the text check with the left neighbour read only in the last column
text_check_right_first(screen, x, y) ==
    IF x < screen.width - 1 THEN getpixel(screen, x + 1, y) = text_color
    ELSE x > 0 /\ getpixel(screen, x - 1, y) = text_color

\* (x < width - 1 and getpixel((x + 1, y)) == text_color)
\*   or (x > 0 and getpixel((x - 1, y)) == text_color)
text_check(screen, x, y) ==
    \/ (x < screen.width - 1 /\ getpixel(screen, x + 1, y) = text_color)
    \/ (x > 0 /\ getpixel(screen, x - 1, y) = text_color)

\* the columns of row y at which the inner loop, for x in range(width), does not
\* go on to the next column: a white pixel whose run check raises, or whose run
\* check and text check both pass
row_stops(screen, y) ==
    {x \in 0 .. (screen.width - 1) :
        /\ getpixel(screen, x, y) = button_color
        /\ \/ white_run(screen, x, y, 1) = "raise"
           \/ (white_run(screen, x, y, 1) = "yes" /\ text_check(screen, x, y))}

\* the inner loop over row y: it ends at the first of these columns, with an
\* IndexError or a click, and the result is NoResult when there is none
button_row(screen, r, y) ==
    LET stops == row_stops(screen, y) IN
    IF stops = {} THEN NoResult
    ELSE LET x == CHOOSE c \in stops : \A d \in stops : c <= d IN
         IF white_run(screen, x, y, 1) = "raise" THEN Raised
         ELSE Clicked(r[1] + x + ClickDx, r[2] + y + ClickDy)

\* the outer loop, for y in range(search_area_start_y, search_area_end_y), from
\* row y on: it stops at the first row with a hit
RECURSIVE button_scan(_, _, _)
button_scan(screen, r, y) ==
    IF y >= screen.height THEN NoResult
    ELSE LET row == button_row(screen, r, y) IN
         IF row = NoResult THEN button_scan(screen, r, y + 1) ELSE row

collect_button(screen, r) == button_scan(screen, r, search_area_start_y(screen.height))

(***************************************************************************)
(* handle_input, lines 28-40: the value of self.paused after them, the     *)
(* time the call then spends in asyncio.sleep, whether is_pressed("p") was *)
(* called (`and` and elif evaluate it only when the first test failed),    *)
(* and whether a branch was taken (the flag written, a message logged).    *)
(***************************************************************************)
\* handle_input without its two sleeps
handle_input_nosleep(p_, s, p) ==
    IF s /\ p_ THEN [paused |-> FALSE, slept |-> 0, readp |-> FALSE, wrote |-> TRUE]
    ELSE IF p THEN [paused |-> ~p_, slept |-> 0, readp |-> TRUE, wrote |-> TRUE]
    ELSE [paused |-> p_, slept |-> 0, readp |-> TRUE, wrote |-> FALSE]

\* handle_input with the start key acting whatever the flag is
handle_input_start_always(p_, s, p) ==
    IF s THEN [paused |-> FALSE, slept |-> DebounceMs, readp |-> FALSE, wrote |-> TRUE]
    ELSE IF p THEN [paused |-> ~p_, slept |-> DebounceMs, readp |-> TRUE, wrote |-> TRUE]
    ELSE [paused |-> p_, slept |-> 0, readp |-> TRUE, wrote |-> FALSE]

handle_input(p_, s, p) ==
    IF s /\ p_ THEN [paused |-> FALSE, slept |-> DebounceMs, readp |-> FALSE, wrote |-> TRUE]
    ELSE IF p THEN [paused |-> ~p_, slept |-> DebounceMs, readp |-> TRUE, wrote |-> TRUE]
    ELSE [paused |-> p_, slept |-> 0, readp |-> TRUE, wrote |-> FALSE]

\* a return value that is paused whatever the flag is
returned_flag_stuck(flag) == TRUE

\* return self.paused: the flag as it is when the call returns
returned_flag(flag) == flag

(***************************************************************************)
(* The inputs of run(): rectangles and snapshots.  The detectors read only *)
(* rect[0] and rect[1]; the capture adapter is not part of the class.      *)
(***************************************************************************)
Rects == { <<0, 0, ImgW, ImgH>>, <<100, 50, 400, 300>> }

bg_color == <<30, 30, 30>>
green_color == <<150, 220, 50>>
freeze_color == <<120, 230, 230>>
\* the background shade inside the green-ish range
shade_color == <<196, 247, 94>>
\* colours around the mask's range: S = 0, V = 240; S = 0, V = 199; S = 56, V = 255
face_color == <<240, 240, 240>>
grey_color == <<199, 199, 199>>
pale_color == <<255, 199, 199>>

EmptyPx == [q \in {} |-> bg_color]
Block(x, y, w, h, c) == [x |-> x, y |-> y, w |-> w, h |-> h, c |-> c]
Snapshot(width, height, px, blocks) ==
    [width |-> width, height |-> height, bg |-> bg_color, px |-> px, blocks |-> blocks]

\* marker pixels on the 20-pixel grid and off it
SpotPos == { <<0, 0>>, <<0, 20>>, <<20, 0>>, <<20, 20>>, <<20, 40>>, <<10, 20>> }
SpotColors == { green_color, freeze_color, shade_color }
SpotPx ==
    {EmptyPx}
    \cup { (p1 :> c1) : p1 \in SpotPos, c1 \in SpotColors }
    \cup { (p1 :> c1) @@ (p2 :> c2) : p1 \in {<<0, 20>>},
                                      p2 \in {<<0, 0>>, <<20, 0>>, <<10, 20>>},
                                      c1 \in SpotColors, c2 \in SpotColors }

\* a black pixel left or right of (x, y0), when that is inside the image
TextPx(x, y0, side) ==
    LET bx == IF side = "left" THEN x - 1 ELSE x + 1
    IN IF side # "none" /\ bx >= 0 /\ bx < ImgW THEN (<<bx, y0>> :> text_color) ELSE EmptyPx

\* a white column of len pixels from (x, y0) down, clipped to the image
Column(x, y0, len) == Block(x, y0, 1, Min(len, ImgH - y0), button_color)

StartY == search_area_start_y(ImgH)
ColumnXs == {0, 10, ImgW - 1}

\* a column in the search area with a black pixel next to its top pixel, and the
\* same under a green marker at (0, 0) for the middle column
ColumnShots ==
    { Snapshot(ImgW, ImgH, TextPx(x, y0, side), <<Column(x, y0, RunLength)>>) :
        x \in ColumnXs, y0 \in StartY .. (StartY + 2), side \in {"none", "left", "right"} }
    \cup { Snapshot(ImgW, ImgH, TextPx(x, StartY, side), <<Column(x, StartY, RunLength - 1)>>) :
             x \in ColumnXs, side \in {"none", "left", "right"} }
    \cup { Snapshot(ImgW, ImgH, TextPx(10, StartY, side) @@ (<<0, 0>> :> green_color),
                     <<Column(10, StartY, RunLength)>>) :
             side \in {"none", "left", "right"} }

\* every sampled pixel of the excluded colour, alone or with a green marker off the grid
GridPos ==
    {x \in 0 .. ImgW - 1 : x % GridStep = 0} \X {y \in 0 .. ImgH - 1 : y % GridStep = 0}
AvoidPx == [q \in GridPos |-> shade_color]
AvoidPxs == { AvoidPx, AvoidPx @@ (<<10, 20>> :> green_color) }

\* block layouts of the wide snapshots, in raster order of the top-left corners:
\* single rectangles of contour area 400, 500, 506, 1000, 2993, 3000 and 3500,
\* rectangles of colours around the mask's range, and layouts of two and three
FaceLayouts ==
    { <<Block(2, 3, 21, 21, button_color)>>,
      <<Block(2, 3, 21, 26, button_color)>>,
      <<Block(2, 3, 23, 24, button_color)>>,
      <<Block(2, 3, 26, 41, button_color)>>,
      <<Block(2, 3, 74, 42, button_color)>>,
      <<Block(2, 3, 61, 51, button_color)>>,
      <<Block(2, 3, 71, 51, button_color)>>,
      <<Block(2, 3, 26, 41, face_color)>>,
      <<Block(2, 3, 26, 41, grey_color)>>,
      <<Block(2, 3, 26, 41, pale_color)>>,
      <<Block(0, 0, 26, 41, button_color), Block(27, 0, 21, 21, button_color),
        Block(49, 0, 21, 26, face_color)>>,
      <<Block(0, 0, 26, 41, button_color), Block(30, 5, 31, 31, face_color)>> }

\* a green and a freeze marker in the top row, or neither, over a white rectangle
\* of contour area 520 and a white column with a black neighbour in the search area
FullShots ==
    { Snapshot(ImgW, ImgH,
               (<<0, 0>> :> c1) @@ (<<20, 0>> :> c2) @@ TextPx(10, StartY, "right"),
               <<Block(0, 1, 21, 27, button_color), Column(10, StartY, RunLength)>>) :
        c1 \in {green_color, bg_color}, c2 \in {freeze_color, bg_color} }

Snapshots ==
    { Snapshot(ImgW, ImgH, px, <<>>) : px \in SpotPx \cup AvoidPxs }
    \cup ColumnShots
    \cup { Snapshot(WideW, WideH, EmptyPx, bs) : bs \in FaceLayouts }
    \cup FullShots

NoRect == <<0, 0, 0, 0>>
NoSnapshot == [width |-> 0, height |-> 0, bg |-> bg_color, px |-> EmptyPx, blocks |-> <<>>]

\* the shape of a snapshot that findContours above relies on
Touching(a, b) ==
    /\ a.x <= b.x + b.w /\ b.x <= a.x + a.w
    /\ a.y <= b.y + b.h /\ b.y <= a.y + a.h
SnapshotShape(screen) ==
    /\ ~inRange(screen.bg)
    /\ \A q \in DOMAIN screen.px :
         /\ ~inRange(screen.px[q])
         /\ InImage(screen, q[1], q[2])
         /\ \A i \in DOMAIN screen.blocks : ~InBlock(screen.blocks[i], q[1], q[2])
    /\ \A i \in DOMAIN screen.blocks :
         LET b == screen.blocks[i] IN
         /\ b.w >= 1 /\ b.h >= 1 /\ b.x >= 0 /\ b.y >= 0
         /\ b.x + b.w <= screen.width /\ b.y + b.h <= screen.height
         /\ \A j \in DOMAIN screen.blocks :
              i < j => /\ ~Touching(b, screen.blocks[j])
                       /\ \/ b.y < screen.blocks[j].y
                          \/ (b.y = screen.blocks[j].y /\ b.x < screen.blocks[j].x)

\* every captured snapshot has that shape
CapturedShape == SnapshotShape(screenshot)

(***************************************************************************)
(* run().                                                                  *)
(***************************************************************************)
InitPausedFalse == FALSE

\* self.paused: bool = True
InitPaused == TRUE

Init ==
    /\ pc = "start"
    /\ paused = InitPaused
    /\ window = "unset"
    /\ rect = NoRect
    /\ screenshot = NoSnapshot
    /\ is_green = FALSE
    /\ polls = 0
    /\ lastPoll = "none"
    /\ keys = <<"unread", "unread">>
    /\ delay = 0
    /\ keyFlips = 0
    /\ holdAge = -1
    /\ holdLen = 0
    /\ holdPolls = 0
    /\ holdFlips = 0
    /\ calls = <<>>
    /\ clicks = <<>>
    /\ collect_dogs = "unread"
    /\ tick = "idle"
    /\ rectLookups = 0
    /\ captures = 0
    /\ error = "none"
    /\ kind = "none"
    /\ raisedIn = "none"
    /\ logged = "none"
    /\ catches = 0
    /\ status = "running"

\* what a call of the try block can raise: an Exception (an ExceptionGroup is one),
\* or a BaseException outside Exception (KeyboardInterrupt, SystemExit,
\* asyncio.CancelledError)
Kinds == {"Exception", "BaseException"}

\* except (Exception, ExceptionGroup) as error
caught(k) == k = "Exception"

\* an except clause inside the while loop: the loop goes on
after_error_continue == "poll"

\* the except clause logs and run() ends
after_error == "done"

\* `call` raises an exception of class k: the except clause of run() is entered,
\* or the exception leaves run().  The clause calls logger.error (line 198): when
\* that returns run() ends, and when it raises the new exception leaves run().
Except(call, k) ==
    /\ error' = call
    /\ raisedIn' = "call"
    /\ kind' = k
    /\ IF caught(k)
       THEN /\ catches' = catches + 1
            /\ \/ /\ logged' = "done"
                  /\ pc' = after_error
                  /\ status' = IF after_error = "done" THEN "returned" ELSE status
               \/ /\ logged' = "raised"
                  /\ pc' = "propagated"
                  /\ status' = "raised"
       ELSE /\ catches' = catches
            /\ logged' = logged
            /\ pc' = "propagated"
            /\ status' = "raised"

\* the branch on handle_input() taken the other way
skip_iteration_inverted(p) == ~p

\* if await self.handle_input(): continue
skip_iteration(p) == p

\* the face detector run whatever the flag is
run_dog_always(flag) == TRUE

\* if get_config_value("COLLECT_DOGS"): self.collect_dog(...)
run_dog(flag) == flag

\* the button detector run whatever is_green is
run_button_always(g) == TRUE

\* if not is_green: self.collect_button(...)
run_button(g) == ~g

\* the test of the window value dropped
window_missing_ignored(w) == FALSE

\* if not window: return logger.error(...)
window_missing(w) == w = "absent"

\* the moves of detector `by`, with whether mouse.click followed mouse.move
Tagged(by, moves, clicked) ==
    [i \in 1 .. Len(moves) |->
        [by |-> by, x |-> moves[i][1], y |-> moves[i][2], clicked |-> clicked]]

Key(b) == IF b THEN "down" ELSE "up"

\* window = self.utils.get_window(); if not window: return logger.error(...)
GetWindow ==
    /\ pc = "start"
    /\ \E w \in {"absent", "window"} :
         /\ window' = w
         /\ pc' = IF window_missing(w) THEN "done" ELSE "poll"
         /\ status' = IF window_missing(w) THEN "returned" ELSE status
    /\ UNCHANGED <<paused, rect, screenshot, is_green, polls, lastPoll, keys, delay, keyFlips,
                   holdAge, holdLen, holdPolls, holdFlips, calls, clicks, collect_dogs,
                   tick, rectLookups, captures, error, raisedIn, kind, logged, catches>>

\* the locals of the last iteration are dead at the top of the loop: they are cleared
NewIteration ==
    /\ rect' = NoRect
    /\ screenshot' = NoSnapshot
    /\ is_green' = FALSE
    /\ calls' = <<>>
    /\ clicks' = <<>>
    /\ collect_dogs' = "unread"

\* handle_input() returns flag to line 180
Return(flag) ==
    /\ lastPoll' = IF returned_flag(flag) THEN "paused" ELSE "running"
    /\ pc' = IF skip_iteration(returned_flag(flag)) THEN "poll" ELSE "rect"
    /\ tick' = IF skip_iteration(returned_flag(flag)) THEN "idle" ELSE "active"

\* lines 28-40 up to the sleep, with the keys in the states s and p: the keys are
\* read and self.paused is written
Written(s, p) ==
    LET r == handle_input(paused, s, p)
        continued == p /\ holdAge >= 0
        inWindow == p /\ (~continued \/ holdAge < DebounceMs)
        flipped == r.paused # paused
    IN /\ paused' = r.paused
       /\ keys' = <<Key(s), IF r.readp THEN Key(p) ELSE "unread">>
       /\ keyFlips' = IF flipped THEN Inc(keyFlips) ELSE keyFlips
       /\ holdAge' = IF ~p THEN -1 ELSE IF continued THEN holdAge ELSE 0
       /\ holdLen' = IF ~p THEN 0 ELSE IF continued THEN Inc(holdLen) ELSE 1
       /\ holdPolls' = IF ~p THEN 0
                       ELSE IF inWindow THEN Inc(IF continued THEN holdPolls ELSE 0)
                       ELSE holdPolls
       /\ holdFlips' = IF ~p THEN 0
                       ELSE IF inWindow /\ flipped
                            THEN Inc(IF continued THEN holdFlips ELSE 0)
                            ELSE IF continued THEN holdFlips ELSE 0

\* await self.handle_input(): a call that does not sleep returns in the same step
\* (line 42), one that sleeps is suspended in asyncio.sleep.
\* Time passes in asyncio.sleep only: every other step is taken to cost no time,
\* which lets the most polls start inside one debounce window.
Poll ==
    /\ pc = "poll"
    /\ \E s \in BOOLEAN, p \in BOOLEAN :
         /\ Written(s, p)
         /\ delay' = handle_input(paused, s, p).slept
         /\ IF handle_input(paused, s, p).slept > 0
            THEN /\ pc' = "sleep"
                 /\ tick' = "idle"
                 /\ UNCHANGED lastPoll
            ELSE Return(handle_input(paused, s, p).paused)
    /\ polls' = Inc(polls)
    /\ NewIteration
    /\ UNCHANGED <<window, rectLookups, captures, error, raisedIn, kind, logged, catches, status>>

\* the sleep of lines 31 and 40 ends and line 42 returns self.paused as it is now
Wake ==
    /\ pc = "sleep"
    /\ holdAge' = IF holdAge < 0 THEN holdAge ELSE Min(holdAge + delay, DebounceMs)
    /\ Return(paused)
    /\ UNCHANGED <<paused, window, rect, screenshot, is_green, polls, keys, delay, keyFlips,
                   holdLen, holdPolls, holdFlips, calls, clicks, collect_dogs,
                   rectLookups, captures, error, raisedIn, kind, logged, catches, status>>

\* asyncio.sleep gives the event loop to the other tasks and callbacks of the
\* process; one of them, holding the same object, writes self.paused (a second
\* handle_input() call on the object does so too).  run() is suspended nowhere else.
OtherTask ==
    /\ pc = "sleep"
    /\ paused' = ~paused
    /\ UNCHANGED <<pc, window, rect, screenshot, is_green, polls, lastPoll, keys, delay,
                   keyFlips, holdAge, holdLen, holdPolls, holdFlips, calls, clicks,
                   collect_dogs, tick, rectLookups, captures, error, raisedIn, kind, logged, catches, status>>

\* rect = self.utils.get_rect(window)
GetRect ==
    /\ pc = "rect"
    /\ \E r \in Rects : rect' = r
    /\ rectLookups' = Inc(rectLookups)
    /\ calls' = Append(calls, "rect")
    /\ pc' = "capture"
    /\ UNCHANGED <<paused, window, screenshot, is_green, polls, lastPoll, keys, delay, keyFlips,
                   holdAge, holdLen, holdPolls, holdFlips, clicks, collect_dogs, tick,
                   captures, error, raisedIn, kind, logged, catches, status>>

\* screenshot = self.utils.capture_screenshot(rect)
Capture ==
    /\ pc = "capture"
    /\ \E img \in Snapshots : screenshot' = img
    /\ captures' = Inc(captures)
    /\ calls' = Append(calls, "capture")
    /\ pc' = "green"
    /\ UNCHANGED <<paused, window, rect, is_green, polls, lastPoll, keys, delay, keyFlips,
                   holdAge, holdLen, holdPolls, holdFlips, clicks, collect_dogs, tick,
                   rectLookups, error, raisedIn, kind, logged, catches, status>>

\* is_green = self.collect_green(screenshot, rect)
Green ==
    /\ pc = "green"
    /\ \E res \in {collect_green(screenshot, rect)} :
          /\ is_green' = res.found
          /\ clicks' = clicks \o Tagged("green", res.moves, TRUE)
    /\ calls' = Append(calls, "green")
    /\ pc' = "freeze"
    /\ UNCHANGED <<paused, window, rect, screenshot, polls, lastPoll, keys, delay, keyFlips,
                   holdAge, holdLen, holdPolls, holdFlips, collect_dogs, tick,
                   rectLookups, captures, error, raisedIn, kind, logged, catches, status>>

\* self.collect_freeze(screenshot, rect)
Freeze ==
    /\ pc = "freeze"
    /\ clicks' = clicks \o Tagged("freeze", collect_freeze(screenshot, rect).moves, TRUE)
    /\ calls' = Append(calls, "freeze")
    /\ pc' = "dog"
    /\ UNCHANGED <<paused, window, rect, screenshot, is_green, polls, lastPoll, keys, delay,
                   keyFlips, holdAge, holdLen, holdPolls, holdFlips, collect_dogs, tick,
                   rectLookups, captures, error, raisedIn, kind, logged, catches, status>>

\* if get_config_value("COLLECT_DOGS"): self.collect_dog(screenshot, rect)
Dog ==
    /\ pc = "dog"
    /\ \E flag \in BOOLEAN :
         /\ collect_dogs' = IF flag THEN "on" ELSE "off"
         /\ clicks' = IF run_dog(flag)
                      THEN clicks \o Tagged("dog", collect_dog(screenshot, rect).moves, TRUE)
                      ELSE clicks
         /\ calls' = IF run_dog(flag) THEN Append(calls, "dog") ELSE calls
    /\ pc' = "button"
    /\ UNCHANGED <<paused, window, rect, screenshot, is_green, polls, lastPoll, keys, delay,
                   keyFlips, holdAge, holdLen, holdPolls, holdFlips, tick,
                   rectLookups, captures, error, raisedIn, kind, logged, catches, status>>

\* if not is_green: self.collect_button(screenshot, rect) -- and back to the top
\* of the loop, or into the except clause when a pixel read raises IndexError
Button ==
    /\ pc = "button"
    /\ IF run_button(is_green)
       THEN \E res \in {collect_button(screenshot, rect)} :
               /\ calls' = Append(calls, "button")
               /\ clicks' = clicks \o Tagged("button", res.moves, TRUE)
               /\ IF res.raised
                  THEN /\ Except("button", "Exception")
                       /\ tick' = "failed"
                  ELSE /\ pc' = "poll"
                       /\ tick' = "complete"
                       /\ UNCHANGED <<error, raisedIn, kind, logged, catches, status>>
       ELSE /\ pc' = "poll"
            /\ tick' = "complete"
            /\ UNCHANGED <<calls, clicks, error, raisedIn, kind, logged, catches, status>>
    /\ UNCHANGED <<paused, window, rect, screenshot, is_green, polls, lastPoll, keys, delay,
                   keyFlips, holdAge, holdLen, holdPolls, holdFlips, collect_dogs,
                   rectLookups, captures>>

\* lines 171-177 raise before the loop: get_window() itself (window is not
\* assigned), the logging of line 173 after get_window() returned no window, or
\* a later line, such as window.title at line 176, after it returned a window
StartError ==
    /\ pc = "start"
    /\ \E w \in {"unset", "absent", "window"} : window' = w
    /\ \E k \in Kinds : Except("start", k)
    /\ UNCHANGED <<paused, rect, screenshot, is_green, polls, lastPoll, keys, delay, keyFlips,
                   holdAge, holdLen, holdPolls, holdFlips, calls, clicks, collect_dogs,
                   tick, rectLookups, captures>>

\* handle_input() raises at line 180, inside the try: keyboard.is_pressed("s")
\* fails before anything is read; keyboard.is_pressed("p") fails after the start
\* key was read and the first test failed; the logging of lines 30 and 35-39
\* fails after the flag was written and before the sleep; an interrupt is raised
\* in the frame of handle_input() after the keys were read (no other exception
\* can be, when no branch was taken); or the sleep the call is suspended in is
\* left by an exception (a cancelled task)
PollError ==
    /\ \E k \in Kinds :
         /\ Except("poll", k)
         /\ \/ /\ pc = "poll"
               /\ polls' = Inc(polls)
               /\ tick' = "idle"
               /\ NewIteration
               /\ \/ /\ keys' = <<"unread", "unread">>
                     /\ UNCHANGED <<paused, keyFlips, holdAge, holdLen, holdPolls, holdFlips>>
                  \/ /\ \E s \in BOOLEAN : ~(s /\ paused) /\ keys' = <<Key(s), "unread">>
                     /\ UNCHANGED <<paused, keyFlips, holdAge, holdLen, holdPolls, holdFlips>>
                  \/ \E s \in BOOLEAN, p \in BOOLEAN :
                       /\ handle_input(paused, s, p).wrote \/ k = "BaseException"
                       /\ Written(s, p)
            \/ /\ pc = "sleep"
               /\ UNCHANGED <<polls, tick, rect, screenshot, is_green, calls, clicks,
                              collect_dogs, paused, keys, keyFlips, holdAge, holdLen,
                              holdPolls, holdFlips>>
    /\ UNCHANGED <<window, lastPoll, delay, rectLookups, captures>>

\* get_config_value("COLLECT_DOGS") raises at line 190: no flag is read and
\* collect_dog is not called
ConfigError ==
    /\ pc = "dog"
    /\ \E k \in Kinds : Except("config", k)
    /\ tick' = "failed"
    /\ UNCHANGED <<paused, window, rect, screenshot, is_green, polls, lastPoll, keys, delay,
                   keyFlips, holdAge, holdLen, holdPolls, holdFlips, calls, clicks,
                   collect_dogs, rectLookups, captures>>

\* the detector run() calls at `call`, on the current snapshot
Detector(call) ==
    CASE call = "green" -> collect_green(screenshot, rect)
      [] call = "freeze" -> collect_freeze(screenshot, rect)
      [] call = "dog" -> collect_dog(screenshot, rect)
      [] call = "button" -> collect_button(screenshot, rect)

\* get_rect, capture_screenshot or a detector raises (the window is gone, the
\* capture fails, the pointer or image library fails, the user interrupts).  The
\* call is made and assigns nothing; a detector that found its point raises before
\* the pointer is moved, or in mouse.click after mouse.move moved it, or is left
\* by an interrupt after mouse.click returned.
\* collect_dog is called after the flag was read set.
CallError ==
    /\ pc \in {"rect", "capture", "green", "freeze", "dog", "button"}
    /\ pc = "button" => run_button(is_green)
    /\ calls' = Append(calls, pc)
    /\ rectLookups' = IF pc = "rect" THEN Inc(rectLookups) ELSE rectLookups
    /\ captures' = IF pc = "capture" THEN Inc(captures) ELSE captures
    /\ collect_dogs' = IF pc = "dog" THEN "on" ELSE collect_dogs
    /\ \E res \in {IF pc \in {"rect", "capture"} THEN NoResult ELSE Detector(pc)} :
         \E k \in Kinds :
            /\ Except(pc, k)
            /\ \/ clicks' = clicks
               \/ /\ res.found
                  /\ \E clicked \in {FALSE, k = "BaseException"} :
                        clicks' = clicks \o Tagged(pc, res.moves, clicked)
    /\ tick' = "failed"
    /\ UNCHANGED <<paused, window, rect, screenshot, is_green, polls, lastPoll, keys, delay,
                   keyFlips, holdAge, holdLen, holdPolls, holdFlips>>

\* an interrupt (KeyboardInterrupt is raised wherever the interpreter is) is
\* raised in the frame of run() itself, before the call of the current position:
\* between get_window() and the logging lines, at lines 179-181 before
\* handle_input() is called or after it returned, between two calls of the
\* iteration, or at line 190 either side of get_config_value.  Nothing more is
\* called, and what the iteration did so far stays.
Interrupt ==
    /\ pc \in {"start", "poll", "rect", "capture", "green", "freeze", "dog", "button"}
    /\ IF pc = "start"
       THEN \E w \in {"unset", "absent", "window"} : window' = w
       ELSE window' = window
    /\ IF pc = "dog"
       THEN \E d \in {"unread", "on", "off"} : collect_dogs' = d
       ELSE collect_dogs' = collect_dogs
    /\ tick' = IF pc \in {"start", "poll"} THEN tick ELSE "failed"
    /\ error' = pc
    /\ raisedIn' = "frame"
    /\ kind' = "BaseException"
    /\ pc' = "propagated"
    /\ status' = "raised"
    /\ UNCHANGED <<paused, rect, screenshot, is_green, polls, lastPoll, keys, delay,
                   keyFlips, holdAge, holdLen, holdPolls, holdFlips, calls, clicks,
                   rectLookups, captures, logged, catches>>

\* a call of run()'s try block raises
ExternalError ==
    \/ StartError
    \/ PollError
    \/ ConfigError
    \/ CallError
    \/ Interrupt

Next ==
    \/ GetWindow
    \/ Poll
    \/ Wake
    \/ OtherTask
    \/ GetRect
    \/ Capture
    \/ Green
    \/ Freeze
    \/ Dog
    \/ Button
    \/ ExternalError

Spec == Init /\ [][Next]_vars

(***************************************************************************)
(* Helpers of the properties.                                              *)
(***************************************************************************)
Count(seq, v) == Cardinality({i \in DOMAIN seq : seq[i] = v})
ClicksBy(by) == {i \in DOMAIN clicks : clicks[i].by = by}
Ran(call) == Count(calls, call) > 0 /\ error # call

\* a click's point relative to the rectangle's origin
Rel(c) == <<c.x - rect[1], c.y - rect[2]>>

GridPoints(screen) ==
    {x \in 0 .. screen.width - 1 : x % GridStep = 0}
        \X {y \in 0 .. screen.height - 1 : y % GridStep = 0}
GreenMatches(screen) ==
    {q \in GridPoints(screen) :
        LET c == getpixel(screen, q[1], q[2]) IN c # avoid_color /\ greenish_range(c)}
FreezeMatches(screen) ==
    {q \in GridPoints(screen) : blueish_range(getpixel(screen, q[1], q[2]))}

\* the least point of S, rows first (y, then x) and columns first (x, then y)
RowMajorFirst(S) ==
    CHOOSE q \in S : \A o \in S : q[2] < o[2] \/ (q[2] = o[2] /\ q[1] <= o[1])
ColumnMajorFirst(S) ==
    CHOOSE q \in S : \A o \in S : q[1] < o[1] \/ (q[1] = o[1] /\ q[2] <= o[2])

\* the detector `by` ran in this iteration and clicked exactly first(M), or
\* nothing when M is empty
ClicksFirst(by, M, first) ==
    Ran(by) =>
        IF M = {} THEN ClicksBy(by) = {}
        ELSE /\ Cardinality(ClicksBy(by)) = 1
             /\ \A i \in ClicksBy(by) : Rel(clicks[i]) = first

\* C1: the agent starts paused, and a rectangle lookup, a capture, a detector call
\* or a click happens only in an iteration whose poll returned paused = false, and
\* never before a poll changed the paused flag.
C1_ActiveOnlyWhenRunning ==
    /\ polls = 0 => paused
    /\ (calls # <<>> \/ clicks # <<>>) => lastPoll = "running"
    /\ pc \in {"capture", "green", "freeze", "dog", "button"} => lastPoll = "running"
    /\ lastPoll = "paused" => (calls = <<>> /\ clicks = <<>> /\ tick = "idle")
    /\ (rectLookups > 0 \/ captures > 0) => keyFlips > 0

C1_Witness ==
    /\ tick = "complete"
    /\ keyFlips = 1
    /\ captures = 1
    /\ clicks # <<>>
    /\ polls > 1

\* C2 (as claimed): in every iteration at most one pointer action is taken in total
\* across the green, freeze, face and button detectors.
C2_AtMostOneClickPerTick == Len(clicks) <= 1

\* C3: when the green detector reported found the button detector is not invoked in
\* that iteration; when it reported not found and the iteration completed without
\* an error the button detector was invoked exactly once.
C3_ButtonShortCircuit ==
    /\ (Ran("green") /\ is_green) => Count(calls, "button") = 0
    /\ (tick = "complete" /\ ~is_green) => Count(calls, "button") = 1
    /\ Count(calls, "button") <= 1

C3_Witness ==
    /\ tick = "complete"
    /\ is_green
    /\ collect_button(screenshot, rect).found

\* C4 (as claimed): every point passed to the pointer is the rectangle's origin
\* plus a window-relative point inside the captured image.
C4_ClicksInsideImage ==
    \A i \in DOMAIN clicks :
        InImage(screenshot, Rel(clicks[i])[1], Rel(clicks[i])[2])

\* C5: while the toggle key is held across consecutive polls, the polls that start
\* within the debounce window of the hold flip the paused flag exactly once.
C5_Debounce ==
    holdLen >= 1 => (holdPolls >= 1 /\ holdFlips = 1)

C5_Witness ==
    /\ holdLen >= 2
    /\ holdPolls = 1
    /\ holdFlips = 1
    /\ holdAge = DebounceMs

\* C6 (as claimed): the green and freeze detectors click the first match in
\* row-major order: the smallest y, and among those the smallest x.
C6_RowMajorFirstMatch ==
    /\ ClicksFirst("green", GreenMatches(screenshot), RowMajorFirst(GreenMatches(screenshot)))
    /\ ClicksFirst("freeze", FreezeMatches(screenshot), RowMajorFirst(FreezeMatches(screenshot)))

\* C6 (amended): the green and freeze detectors click the first match in
\* column-major order: the smallest x, and among those the smallest y.
C6_ColumnMajorFirstMatch ==
    /\ ClicksFirst("green", GreenMatches(screenshot), ColumnMajorFirst(GreenMatches(screenshot)))
    /\ ClicksFirst("freeze", FreezeMatches(screenshot), ColumnMajorFirst(FreezeMatches(screenshot)))

C6_Witness ==
    /\ Ran("green")
    /\ Ran("freeze")
    /\ Cardinality(GreenMatches(screenshot)) >= 2
    /\ RowMajorFirst(GreenMatches(screenshot)) # ColumnMajorFirst(GreenMatches(screenshot))

\* C7: a click of the green or freeze detector is at exactly
\* (rect[0] + x, rect[1] + y) for a sampled pixel (x, y) that matches, and the
\* detector clicks once; rect = (100, 50, 400, 300) and a match at (20, 40) give
\* (120, 90).
C7_CoordinateMapping ==
    /\ \A i \in ClicksBy("green") :
         \E m \in GreenMatches(screenshot) :
            clicks[i].x = rect[1] + m[1] /\ clicks[i].y = rect[2] + m[2]
    /\ \A i \in ClicksBy("freeze") :
         \E m \in FreezeMatches(screenshot) :
            clicks[i].x = rect[1] + m[1] /\ clicks[i].y = rect[2] + m[2]
    /\ Cardinality(ClicksBy("green")) <= 1
    /\ Cardinality(ClicksBy("freeze")) <= 1
    /\ (Ran("green") /\ rect = <<100, 50, 400, 300>> /\ GreenMatches(screenshot) = {<<20, 40>>})
          => \E i \in ClicksBy("green") : clicks[i].x = 120 /\ clicks[i].y = 90

C7_Witness ==
    /\ rect = <<100, 50, 400, 300>>
    /\ GreenMatches(screenshot) = {<<20, 40>>}
    /\ \E i \in ClicksBy("green") : clicks[i].x = 120 /\ clicks[i].y = 90

\* C8: when the window locator returns absent, run() makes no rectangle lookup, no
\* capture, no key poll and no click, and the run is over; it returns normally,
\* with the except clause not entered, when the logging of line 173 does not raise.
C8_AbsentWindow ==
    window = "absent" =>
        /\ rectLookups = 0 /\ captures = 0 /\ polls = 0
        /\ calls = <<>> /\ clicks = <<>>
        /\ pc \in {"done", "propagated"}
        /\ error \in {"none", "start"}
        /\ error = "none" => (pc = "done" /\ status = "returned" /\ catches = 0)

C8_Witness == window = "absent" /\ pc = "done" /\ error = "none" /\ status = "returned"

\* the calls of the claim: rectangle lookup, capture and the detectors
TickCalls == {"rect", "capture", "green", "freeze", "dog", "button"}

\* what holds after an exception.  Raised inside a call: the iteration did not
\* complete and the failing call is the last one made.  Raised in the frame of
\* run(): the call of that position was not made, and an iteration that was
\* under way did not complete.  In both cases a pointer move of the failing
\* detector is the last one, and only that one can lack its click.
StoppedAtError ==
    /\ raisedIn = "call" =>
          /\ tick \in {"failed", "idle"}
          /\ error \in TickCalls => (calls # <<>> /\ calls[Len(calls)] = error)
          /\ error = "config" =>
                (calls = <<"rect", "capture", "green", "freeze">> /\ collect_dogs = "unread")
          /\ error \in {"start", "poll"} => (calls = <<>> /\ clicks = <<>>)
    /\ raisedIn = "frame" =>
          /\ error \in TickCalls \cup {"start", "poll"}
          /\ tick = "failed" <=> error \in TickCalls
          /\ \A i \in DOMAIN calls : calls[i] # error
          /\ error = "start" => (calls = <<>> /\ clicks = <<>>)
    /\ \A i \in DOMAIN clicks :
         /\ clicks[i].by = error => (i = Len(clicks) /\ raisedIn = "call")
         /\ ~clicks[i].clicked => clicks[i].by = error

\* C9 (as claimed): any exception raised in a rectangle lookup, a capture or a
\* detector is caught once by run(): the loop is left, run() returns without
\* propagating it, and the failing call is the last one made.
C9_ErrorEndsRun ==
    (error \in TickCalls /\ raisedIn = "call") =>
        /\ pc = "done" /\ status = "returned" /\ catches = 1
        /\ StoppedAtError

ErrorOutcome ==
    error # "none" =>
        /\ kind = "Exception" =>
              /\ catches = 1
              /\ logged = "done" => (pc = "done" /\ status = "returned")
              /\ logged = "raised" => (pc = "propagated" /\ status = "raised")
              /\ logged # "none"
        /\ kind = "BaseException" =>
              (pc = "propagated" /\ status = "raised" /\ catches = 0 /\ logged = "none")
        /\ kind # "none"
        /\ raisedIn # "none"
        /\ raisedIn = "frame" => kind = "BaseException"
        /\ StoppedAtError

NoStepAfterError == error = "none"

\* C9 (amended): an exception of class Exception (exception groups included) raised
\* by a call of the try block is caught once by run(), which returns when the
\* logging of the except clause returns and is left by the new exception when
\* that logging raises; a BaseException outside Exception is not caught and
\* leaves run(), whether a call raised it or it was raised in the frame of
\* run() between two calls; in every case the loop is left, a failing call is
\* the last one made, and nothing happens after the error.
C9_ExceptionEndsRun == []ErrorOutcome /\ [][NoStepAfterError]_vars

\* a capture left by a BaseException, and no detector after it
C9_Witness ==
    /\ error = "capture"
    /\ raisedIn = "call"
    /\ kind = "BaseException"
    /\ pc = "propagated"
    /\ calls = <<"rect", "capture">>
    /\ clicks = <<>>

\* the pixel the button detector accepted, given its click
Candidate(c) == <<Rel(c)[1] - ClickDx, Rel(c)[2] - ClickDy>>
Black(screen, x, y) == InImage(screen, x, y) /\ getpixel(screen, x, y) = text_color
SearchArea(screen) ==
    (0 .. screen.width - 1) \X (search_area_start_y(screen.height) .. screen.height - 1)
WhiteRunAt(screen, x, y) ==
    \A o \in 0 .. (RunLength - 1) :
        InImage(screen, x, y + o) /\ getpixel(screen, x, y + o) = button_color

\* C10 (as claimed): a hit at (x, y) with x < width - 1 requires (x + 1, y) to be
\* black; the left neighbour counts only in the last column.
C10_RightNeighbourFirst ==
    \A i \in ClicksBy("button") :
        LET q == Candidate(clicks[i]) IN
        IF q[1] < screenshot.width - 1
        THEN Black(screenshot, q[1] + 1, q[2])
        ELSE Black(screenshot, q[1] - 1, q[2])

\* C10 (amended): a hit at (x, y) requires the right or the left neighbour of
\* (x, y) inside the image to be black, in every column; and a scan that ends
\* without a hit and without an error leaves no pixel of the search area that
\* starts a white run of 10 and has a black left or right neighbour.
C10_EitherNeighbour ==
    /\ \A i \in ClicksBy("button") :
         LET q == Candidate(clicks[i]) IN
         Black(screenshot, q[1] + 1, q[2]) \/ Black(screenshot, q[1] - 1, q[2])
    /\ (Ran("button") /\ ClicksBy("button") = {}) =>
         \A q \in SearchArea(screenshot) :
            ~(/\ WhiteRunAt(screenshot, q[1], q[2])
              /\ (Black(screenshot, q[1] + 1, q[2]) \/ Black(screenshot, q[1] - 1, q[2])))

C10_Witness ==
    \E i \in ClicksBy("button") :
        LET q == Candidate(clicks[i]) IN
        /\ q[1] < screenshot.width - 1
        /\ ~Black(screenshot, q[1] + 1, q[2])
        /\ Black(screenshot, q[1] - 1, q[2])

\* C11: the button detector reports (x, y) only if (x, y) and the 9 pixels below it
\* are white, all inside the image; a snapshot with no vertical white run of 10
\* gets no button click, even with a black pixel next to a run of 9.
C11_RunOfTen ==
    /\ \A i \in ClicksBy("button") :
         LET q == Candidate(clicks[i]) IN WhiteRunAt(screenshot, q[1], q[2])
    /\ ClicksBy("button") # {}
          => \E q \in SearchArea(screenshot) : WhiteRunAt(screenshot, q[1], q[2])

\* a white run of exactly 9 with a black neighbour, scanned to the end without a click
C11_Witness ==
    /\ Ran("button")
    /\ tick = "complete"
    /\ ClicksBy("button") = {}
    /\ \E q \in SearchArea(screenshot) :
         /\ \A o \in 0 .. 8 :
               InImage(screenshot, q[1], q[2] + o)
               /\ getpixel(screenshot, q[1], q[2] + o) = button_color
         /\ InImage(screenshot, q[1], q[2] + 9)
         /\ getpixel(screenshot, q[1], q[2] + 9) # button_color
         /\ (Black(screenshot, q[1] + 1, q[2]) \/ Black(screenshot, q[1] - 1, q[2]))

\* C12: a sampled pixel of exactly (196, 247, 94) is never the match the green
\* detector reports; when every sampled pixel has that colour the detector reports
\* not found and does not click, whatever lies off the grid; and when another
\* sampled pixel is green-ish the scan goes past the excluded pixels and finds it.
C12_ExcludedColor ==
    /\ \A i \in ClicksBy("green") :
         getpixel(screenshot, Rel(clicks[i])[1], Rel(clicks[i])[2]) # <<196, 247, 94>>
    /\ (Ran("green") /\ \A q \in GridPoints(screenshot) :
                           getpixel(screenshot, q[1], q[2]) = <<196, 247, 94>>)
          => (~is_green /\ ClicksBy("green") = {})
    /\ (Ran("green") /\ \E q \in GridPoints(screenshot) :
                           /\ getpixel(screenshot, q[1], q[2]) # <<196, 247, 94>>
                           /\ greenish_range(getpixel(screenshot, q[1], q[2])))
          => (is_green /\ Cardinality(ClicksBy("green")) = 1)

C12_Witness ==
    /\ Ran("green")
    /\ ~is_green
    /\ ClicksBy("green") = {}
    /\ \A q \in GridPoints(screenshot) : getpixel(screenshot, q[1], q[2]) = <<196, 247, 94>>
    /\ \E q \in DOMAIN screenshot.px :
         q \notin GridPoints(screenshot) /\ greenish_range(screenshot.px[q])

\* the snapshot with every pixel off the 20-pixel grid set to the background
OnGrid(screen) ==
    [screen EXCEPT !.px = [q \in DOMAIN screen.px \cap GridPoints(screen) |-> screen.px[q]]]

\* C13: when no pixel at a multiple of 20 in both axes matches, the green detector
\* reports not found and does not click; the green and freeze detectors read the
\* pixels (20i, 20j) only: pixels off the grid do not change their results (stated
\* for each snapshot once, in the state after the detector ran on it).
C13_CoarseGridMiss ==
    /\ (Ran("green") /\ GreenMatches(screenshot) = {})
          => (~is_green /\ ClicksBy("green") = {})
    /\ pc = "freeze" =>
          collect_green(screenshot, rect) = collect_green(OnGrid(screenshot), rect)
    /\ pc = "dog" =>
          collect_freeze(screenshot, rect) = collect_freeze(OnGrid(screenshot), rect)

\* the only marker pixel is green-ish and off the grid
C13_Witness ==
    /\ Ran("green")
    /\ ~is_green
    /\ ClicksBy("green") = {}
    /\ \E q \in DOMAIN screenshot.px :
         /\ DOMAIN screenshot.px = {q}
         /\ screenshot.blocks = <<>>
         /\ greenish_range(screenshot.px[q])
         /\ ~(q[1] % 20 = 0 /\ q[2] % 20 = 0)

\* the contours whose area is strictly between 500 and 3000, by their position in
\* the sequence cv2.findContours returns
Surviving(screen) ==
    {i \in DOMAIN findContours(screen) :
        contourArea(findContours(screen)[i]) > 500
        /\ contourArea(findContours(screen)[i]) < 3000}
FirstOf(S) == CHOOSE i \in S : \A j \in S : i <= j

\* C14: the face detector clicks once, for the first contour whose area is strictly
\* between 500 and 3000, at the rectangle's origin plus the centre of that
\* contour's bounding box; with no such contour it does not click.
C14_AreaFilter ==
    Ran("dog") =>
        IF Surviving(screenshot) = {} THEN ClicksBy("dog") = {}
        ELSE LET c == findContours(screenshot)[FirstOf(Surviving(screenshot))] IN
             /\ Cardinality(ClicksBy("dog")) = 1
             /\ \A i \in ClicksBy("dog") :
                   /\ clicks[i].x = rect[1] + c.x + c.w \div 2
                   /\ clicks[i].y = rect[2] + c.y + c.h \div 2

\* contours of area 500 and 400 are passed over and the third one, of area 1000 in
\* the box (0, 0, 26, 41), is clicked
C14_Witness ==
    /\ Ran("dog")
    /\ Len(findContours(screenshot)) = 3
    /\ contourArea(findContours(screenshot)[1]) = 500
    /\ contourArea(findContours(screenshot)[2]) = 400
    /\ contourArea(findContours(screenshot)[3]) = 1000
    /\ \E i \in ClicksBy("dog") :
         clicks[i].x = rect[1] + 13 /\ clicks[i].y = rect[2] + 20

\* C15: a poll made with the flag at paused writes FALSE if the start key is down
\* and paused, the flipped flag if not that and the toggle key is down, and nothing
\* otherwise; it sleeps 200 ms in the first two cases and not at all in the third
\* (so the start key alone while running changes nothing and costs nothing); and
\* it returns the flag as it is when it returns.
PollStepAsSpecified ==
    /\ (pc = "poll" /\ error' = "none") =>
          LET start == keys'[1] = "down" /\ paused
              toggle == ~start /\ keys'[2] = "down"
          IN /\ paused' = (IF start THEN FALSE ELSE IF toggle THEN ~paused ELSE paused)
             /\ delay' = (IF start \/ toggle THEN 200 ELSE 0)
             /\ (pc' = "sleep") = (start \/ toggle)
             /\ ~(start \/ toggle) => ((lastPoll' = "paused") = paused')
    /\ (pc = "sleep" /\ pc' # "sleep" /\ error' = "none") =>
          ((lastPoll' = "paused") = paused')

C15_TransitionFunction == [][PollStepAsSpecified]_vars

\* the second poll reads the start key alone while running, after a first iteration
C15_Witness ==
    /\ polls = 2
    /\ pc = "rect"
    /\ captures = 1
    /\ keys = <<"down", "up">>
    /\ ~paused
    /\ delay = 0
    /\ keyFlips = 1

\* the calls of a completed iteration, from the flag read and green's result
ExpectedCalls ==
    <<"rect", "capture", "green", "freeze">>
        \o (IF collect_dogs = "on" THEN <<"dog">> ELSE <<>>)
        \o (IF is_green THEN <<>> ELSE <<"button">>)

\* C16: an iteration that completes without error made exactly these calls in this
\* order: rect, capture, green, freeze, dog if the flag is set, button if green was
\* not found; freeze ran once whatever green found; and rect and screenshot do not
\* change from the green detector to the end of the iteration.
CompleteTickAsSpecified ==
    tick = "complete" =>
        /\ collect_dogs \in {"on", "off"}
        /\ calls = ExpectedCalls
        /\ Count(calls, "freeze") = 1

SameInputsStep ==
    pc \in {"green", "freeze", "dog", "button"} =>
        (rect' = rect /\ screenshot' = screenshot)

C16_TickOrder == []CompleteTickAsSpecified /\ [][SameInputsStep]_vars

C16_Witness ==
    /\ tick = "complete"
    /\ is_green
    /\ collect_dogs = "on"
    /\ calls = <<"rect", "capture", "green", "freeze", "dog">>
    /\ ClicksBy("freeze") # {}

\* C17 (as claimed): when the green, freeze or face detector reported found in an
\* iteration, the button detector is not invoked in it.
C17_ButtonOnlyWhenNothingFound ==
    (is_green \/ ClicksBy("freeze") # {} \/ ClicksBy("dog") # {})
        => Count(calls, "button") = 0

\* C18: self.paused changes only while a handle_input() call is in progress, so
\* after a poll returned the flag is what it returned until the next poll; the loop
\* takes the flag once per iteration, at its top, and a capture is made in an
\* iteration after its poll.
FlagIsLastPoll ==
    /\ (lastPoll # "none" /\ pc # "sleep" /\ error # "poll")
          => ((lastPoll = "paused") <=> paused)
    /\ captures <= polls
    /\ rectLookups <= polls

OnlyPollsChangeFlag ==
    /\ paused' # paused => pc \in {"poll", "sleep"}
    /\ lastPoll' # lastPoll => (pc \in {"poll", "sleep"} /\ calls' = <<>>)
    /\ pc \in {"rect", "capture", "green", "freeze", "dog", "button"} =>
          (paused' = paused /\ lastPoll' = lastPoll /\ polls' = polls)
    /\ captures' # captures => (polls' = polls /\ calls # <<>>)
    /\ polls' # polls => (polls' = polls + 1 /\ calls' = <<>>)

C18_PausedFrame == []FlagIsLastPoll /\ [][OnlyPollsChangeFlag]_vars

C18_Witness ==
    /\ tick = "complete"
    /\ Len(clicks) >= 2
    /\ ~paused
    /\ lastPoll = "running"
    /\ polls = captures

\* C19 (as claimed): the button detector reads pixels inside the image only, so no
\* snapshot makes it raise for a read below the last row.
C19_ButtonReadsInsideImage ==
    Count(calls, "button") > 0 => ~collect_button(screenshot, rect).raised

====
